---- MODULE Spec2Model ----
(***************************************************************************)
(* Model of posthog/api/property_definition.py: the property definition    *)
(* list / retrieve / update resource and its dynamic query composition.    *)
(*                                                                         *)
(* Conventions.  A value that may be None (Python) or NULL (SQL) is a      *)
(* sequence: <<>> is None/NULL and <<v>> is the value v.  A raw query      *)
(* string is a sequence of lexical tokens (a name, an event, one of the    *)
(* punctuation marks "[", "]", ","), so that str.split and json.loads are  *)
(* computed and may fail.  A query text is a sequence of clauses, each a   *)
(* sequence of text tokens, so that f-string interpolation is              *)
(* concatenation.                                                          *)
(***************************************************************************)
EXTENDS Integers, Sequences, FiniteSets, TLC

\* ------------------------------------------------------------------ bounds

\* query_usage_30_day ranges over NULL and 0..MaxUsage.
MaxUsage == 1

\* ------------------------------------------------------- program constants

\* posthog.constants.GROUP_TYPES_LIMIT
GROUP_TYPES_LIMIT == 5

None == <<>>

Some(v) == <<v>>

\* Variant: the generated group names stop one short of the limit.
HiddenWithoutLastGroup ==
    {"distinct_id", "$set", "$set_once", "$groups", "$group_type", "$group_key", "$group_set"}
        \cup {"$group_" \o ToString(i) : i \in 0 .. (GROUP_TYPES_LIMIT - 2)}

\* Properties generated by ingestion that are never shown to users.
HIDDEN_PROPERTY_DEFINITIONS ==
    {"distinct_id", "$set", "$set_once", "$groups", "$group_type", "$group_key", "$group_set"}
        \cup {"$group_" \o ToString(i) : i \in 0 .. (GROUP_TYPES_LIMIT - 1)}

\* ------------------------------------------------------------- the stores

Teams == {"team_1", "team_2"}

\* The (id, team, name) layout of the posthog_propertydefinition table;
\* (team_id, name) is unique, as the table's constraint requires.
Layout ==
    << [id |-> 1, team_id |-> "team_1", name |-> "a"],
       [id |-> 2, team_id |-> "team_1", name |-> "b"],
       [id |-> 3, team_id |-> "team_1", name |-> "timestamp"],
       [id |-> 4, team_id |-> "team_1", name |-> "distinct_id"],
       [id |-> 5, team_id |-> "team_1", name |-> "$set"],
       [id |-> 6, team_id |-> "team_1", name |-> "$group_4"],
       [id |-> 7, team_id |-> "team_2", name |-> "a"],
       [id |-> 8, team_id |-> "team_2", name |-> "b"] >>

RowIds == 1 .. Len(Layout)

\* An identifier no row has.
MissingId == Len(Layout) + 1

UsageValues == {None} \cup {Some(u) : u \in 0 .. MaxUsage}

\* A stored PropertyDefinition row.
PropertyDefinition(i, numerical, usage) ==
    [id |-> Layout[i].id, team_id |-> Layout[i].team_id, name |-> Layout[i].name,
     is_numerical |-> numerical, query_usage_30_day |-> usage]

\* The tables the model starts from: rows "a" and "b" of team_1 take every
\* usage value and are numerical or not; the other rows are fixed.
Stores ==
    { { PropertyDefinition(1, na, ua),
        PropertyDefinition(2, nb, ub),
        PropertyDefinition(3, TRUE, Some(0)),
        PropertyDefinition(4, TRUE, Some(MaxUsage)),
        PropertyDefinition(5, FALSE, None),
        PropertyDefinition(6, TRUE, Some(0)),
        PropertyDefinition(7, TRUE, None),
        PropertyDefinition(8, FALSE, Some(0)) }
      : na \in BOOLEAN, nb \in BOOLEAN, ua \in UsageValues, ub \in UsageValues }

\* A stored EventProperty row.
EventProperty(t, e, p) == [team_id |-> t, event |-> e, property |-> p]

\* posthog_eventproperty contents: "timestamp" is seen with "login" and
\* "b" with "logout" in team_1, "b" is seen with "login" only in team_2;
\* "a" with "login" and "b" with "signup" in team_1 vary.
EventPropertyTables ==
    { { EventProperty("team_1", "login", "timestamp"),
        EventProperty("team_1", "logout", "b"),
        EventProperty("team_2", "login", "b") } \cup extra
      : extra \in SUBSET { EventProperty("team_1", "login", "a"),
                           EventProperty("team_1", "signup", "b") } }

\* ------------------------------------------------------------ the requests

\* request.GET values of `properties`: absent, "", "a,timestamp,$group_4",
\* "distinct_id,b".
PropertiesInputs ==
    { None, Some(<<>>), Some(<<"a", ",", "timestamp", ",", "$group_4">>),
      Some(<<"distinct_id", ",", "b">>) }

IsNumericalInputs == { None, Some("true"), Some("false"), Some("True") }

\* `event_names`: absent, "", "[]", '["login"]', '["login","signup"]',
\* and the malformed "not-json".
EventNamesInputs ==
    { None, Some(<<>>), Some(<<"[", "]">>), Some(<<"[", "login", "]">>),
      Some(<<"[", "login", ",", "signup", "]">>), Some(<<"not-json">>) }

IsEventPropertyInputs == { None, Some("true"), Some("false") }

\* `excluded_properties`: absent, "[]", '["a"]' and the unterminated '["a"'.
ExcludedPropertiesInputs ==
    { None, Some(<<"[", "]">>), Some(<<"[", "a", "]">>), Some(<<"[", "a">>) }

\* `search`: absent, or the term "a".
SearchInputs == { None, Some(<<"a">>) }

\* Update bodies: `name` absent, blank, or a new name.
BodyInputs == { [name |-> None], [name |-> Some("")], [name |-> Some("renamed")] }

NoBody == [name |-> None]

ListRequests ==
    [ op : {"list"}, team_id : Teams, id : {0},
      properties : PropertiesInputs, is_numerical : IsNumericalInputs,
      event_names : EventNamesInputs, is_event_property : IsEventPropertyInputs,
      excluded_properties : ExcludedPropertiesInputs, search : SearchInputs,
      body : {NoBody}, partial : {FALSE} ]

ItemRequest(op, team, id, body, partial) ==
    [ op |-> op, team_id |-> team, id |-> id,
      properties |-> None, is_numerical |-> None, event_names |-> None,
      is_event_property |-> None, excluded_properties |-> None, search |-> None,
      body |-> body, partial |-> partial ]

NoRequest == ItemRequest("none", "team_1", 0, NoBody, FALSE)

\* ------------------------------------------------- strings, lists and JSON

\* Python truthiness of a request.GET value: neither None nor "".
Truthy(v) == v # None /\ v[1] # <<>>

\* `x or []` for x a list, "" or None.
OrEmpty(v) == IF v = None THEN <<>> ELSE v[1]

Range(s) == { s[i] : i \in 1 .. Len(s) }

\* str.split(","): the names between the commas; an empty stretch is "".
RECURSIVE Split(_)
Split(toks) ==
    IF toks = <<>> THEN <<"">>
    ELSE IF Head(toks) = "," THEN <<"">> \o Split(Tail(toks))
    ELSE IF Len(toks) = 1 THEN <<Head(toks)>>
    ELSE <<Head(toks)>> \o Split(Tail(Tail(toks)))

\* A token that is a quoted JSON string.
IsStringLiteral(t) == t \notin {"[", "]", ",", "not-json"}

JsonOk(v) == [ok |-> TRUE, value |-> v]

JsonError == [ok |-> FALSE, value |-> <<>>]

\* The rest of an array after one of its elements: "]" ends the document,
\* "," must be followed by another string.
RECURSIVE ParseArrayItems(_, _, _)
ParseArrayItems(toks, i, acc) ==
    IF i > Len(toks) THEN JsonError
    ELSE IF toks[i] = "]" THEN (IF i = Len(toks) THEN JsonOk(acc) ELSE JsonError)
    ELSE IF toks[i] = "," /\ i + 1 <= Len(toks) /\ IsStringLiteral(toks[i + 1])
         THEN ParseArrayItems(toks, i + 2, Append(acc, toks[i + 1]))
    ELSE JsonError

\* json.loads on a document that is an array of strings, or is malformed
\* (other JSON documents are not among the modelled inputs).
JsonLoads(toks) ==
    IF Len(toks) < 2 \/ toks[1] # "[" THEN JsonError
    ELSE IF toks[2] = "]" THEN (IF Len(toks) = 2 THEN JsonOk(<<>>) ELSE JsonError)
    ELSE IF IsStringLiteral(toks[2]) THEN ParseArrayItems(toks, 3, <<toks[2]>>)
    ELSE JsonError

\* ------------------------------------------------------- query composition

NAME_FILTER == <<"AND name IN %(names)s">>

NUMERICAL_FILTER ==
    <<"AND is_numerical = true AND name NOT IN ('distinct_id', 'timestamp')">>

EVENT_PROPERTY_SUBQUERY ==
    <<"(SELECT count(1) > 0 FROM posthog_eventproperty WHERE posthog_eventproperty.team_id=posthog_propertydefinition.team_id AND posthog_eventproperty.event IN %(event_names)s AND posthog_eventproperty.property = posthog_propertydefinition.name)">>

SEARCH_QUERY == <<"AND name ILIKE %(search)s">>

WHERE_CLAUSE ==
    <<"WHERE team_id = %(team_id)s AND name NOT IN %(excluded_properties)s">>

ORDER_BY ==
    <<"ORDER BY is_event_property DESC, query_usage_30_day DESC NULLS LAST, name ASC">>

\* The columns of PropertyDefinition._meta.get_fields().
property_definition_fields ==
    <<"id, name, is_numerical, query_usage_30_day, property_type, team_id">>

\* Variant: the names are written into the text instead of being bound.
NameFilterInterpolated(req) ==
    IF Truthy(req.properties)
    THEN [name_filter |-> <<"AND name IN">> \o Split(req.properties[1]),
          names |-> Split(req.properties[1])]
    ELSE [name_filter |-> <<>>, names |-> <<>>]

\* Variant: the filter is applied whenever `properties` is given, "" too.
NameFilterOnNotNone(req) ==
    IF req.properties # None
    THEN [name_filter |-> NAME_FILTER, names |-> Split(req.properties[1])]
    ELSE [name_filter |-> <<>>, names |-> <<>>]

get_name_filter(req) ==
    IF Truthy(req.properties)
    THEN [name_filter |-> NAME_FILTER, names |-> Split(req.properties[1])]
    ELSE [name_filter |-> <<>>, names |-> <<>>]

\* Variant: any given value of is_numerical turns the filter on.
NumericalFilterOnAnyValue(req) ==
    IF req.is_numerical # None THEN NUMERICAL_FILTER ELSE <<>>

get_numerical_filter(req) ==
    IF req.is_numerical = Some("true") THEN NUMERICAL_FILTER ELSE <<>>

\* The parsed list, or the falsy raw value unparsed; json.loads raises
\* json.JSONDecodeError, which nothing here catches.
get_event_names(req) ==
    IF Truthy(req.event_names)
    THEN LET parsed == JsonLoads(req.event_names[1])
         IN IF parsed.ok THEN [raised |-> "", value |-> Some(parsed.value)]
            ELSE [raised |-> "JSONDecodeError", value |-> None]
    ELSE [raised |-> "", value |-> req.event_names]

get_excluded_properties(req) ==
    IF Truthy(req.excluded_properties)
    THEN LET parsed == JsonLoads(req.excluded_properties[1])
         IN IF parsed.ok THEN [raised |-> "", value |-> Some(parsed.value)]
            ELSE [raised |-> "JSONDecodeError", value |-> None]
    ELSE [raised |-> "", value |-> req.excluded_properties]

\* Variant: the "false" branch repeats the "= true" filter.
EventPropertyFieldFalseAsTrue(req) ==
    LET event_names == get_event_names(req)
    IN IF event_names.raised # ""
       THEN [raised |-> event_names.raised, field |-> <<>>, filter |-> <<>>]
       ELSE IF Truthy(event_names.value) /\ Len(event_names.value[1]) > 0
       THEN [raised |-> "", field |-> EVENT_PROPERTY_SUBQUERY,
             filter |-> IF req.is_event_property \in {Some("true"), Some("false")}
                        THEN <<"AND">> \o EVENT_PROPERTY_SUBQUERY \o <<"= true">>
                        ELSE <<>>]
       ELSE [raised |-> "", field |-> <<"NULL">>, filter |-> <<>>]

get_event_property_field(req) ==
    LET event_names == get_event_names(req)
    IN IF event_names.raised # ""
       THEN [raised |-> event_names.raised, field |-> <<>>, filter |-> <<>>]
       ELSE IF Truthy(event_names.value) /\ Len(event_names.value[1]) > 0
       THEN [raised |-> "", field |-> EVENT_PROPERTY_SUBQUERY,
             filter |-> IF req.is_event_property = Some("true")
                        THEN <<"AND">> \o EVENT_PROPERTY_SUBQUERY \o <<"= true">>
                        ELSE IF req.is_event_property = Some("false")
                        THEN <<"AND">> \o EVENT_PROPERTY_SUBQUERY \o <<"= false">>
                        ELSE <<>>]
       ELSE [raised |-> "", field |-> <<"NULL">>, filter |-> <<>>]

\* posthog.filters.term_search_filter_sql on the search field `name`: no
\* fragment without a term, else a fragment with the term bound.
get_search_fields(req) ==
    IF Truthy(req.search)
    THEN [search_query |-> SEARCH_QUERY, search |-> req.search]
    ELSE [search_query |-> <<>>, search |-> None]

NoParams ==
    [event_names |-> <<>>, names |-> <<>>, team_id |-> "team_1",
     excluded_properties |-> {}, search |-> None]

Raised(e) == [raised |-> e, text |-> <<>>, params |-> NoParams]

\* The (query text, params) pair handed to PropertyDefinition.objects.raw.
get_queryset(req) ==
    LET nf == get_name_filter(req)
        numerical_filter == get_numerical_filter(req)
        event_names == get_event_names(req)
        excluded_properties == get_excluded_properties(req)
        epf == get_event_property_field(req)
        sf == get_search_fields(req)
    IN IF event_names.raised # "" THEN Raised(event_names.raised)
       ELSE IF excluded_properties.raised # "" THEN Raised(excluded_properties.raised)
       ELSE IF epf.raised # "" THEN Raised(epf.raised)
       ELSE [raised |-> "",
             text |-> << <<"SELECT">> \o property_definition_fields \o <<",">>,
                         epf.field \o <<"AS is_event_property">>,
                         <<"FROM posthog_propertydefinition">>,
                         WHERE_CLAUSE,
                         nf.name_filter,
                         numerical_filter,
                         sf.search_query,
                         epf.filter,
                         ORDER_BY >>,
             params |-> [event_names |-> OrEmpty(event_names.value),
                         names |-> nf.names,
                         team_id |-> req.team_id,
                         excluded_properties |->
                             Range(OrEmpty(excluded_properties.value))
                                 \cup HIDDEN_PROPERTY_DEFINITIONS,
                         search |-> sf.search]]

\* --------------------------------------------------------- query execution

\* The characters of the names the tables hold.
Spelling(name) ==
    CASE name = "a" -> <<"a">>
      [] name = "b" -> <<"b">>
      [] name = "timestamp" -> <<"t", "i", "m", "e", "s", "t", "a", "m", "p">>
      [] name = "distinct_id" -> <<"d", "i", "s", "t", "i", "n", "c", "t", "_", "i", "d">>
      [] name = "$set" -> <<"$", "s", "e", "t">>
      [] name = "$group_4" -> <<"$", "g", "r", "o", "u", "p", "_", "4">>
      [] OTHER -> <<>>

\* The search fragment's match: the term occurs in the name.
TermMatches(term, name) ==
    LET s == Spelling(name)
    IN \E i \in 0 .. (Len(s) - Len(term)) : SubSeq(s, i + 1, i + Len(term)) = term

\* Variant: the subquery is not correlated on team_id.
SubqueryAcrossTeams(row, params, eventProperties) ==
    Cardinality({ e \in eventProperties :
                    /\ e.event \in Range(params.event_names)
                    /\ e.property = row.name }) > 0

\* The scalar subquery of EVENT_PROPERTY_SUBQUERY for one row: count(1) > 0.
SubqueryValue(row, params, eventProperties) ==
    Cardinality({ e \in eventProperties :
                    /\ e.team_id = row.team_id
                    /\ e.event \in Range(params.event_names)
                    /\ e.property = row.name }) > 0

\* The selected expression aliased is_event_property: the subquery, or NULL.
SelectIsEventProperty(text, params, row, eventProperties) ==
    IF text[2] = EVENT_PROPERTY_SUBQUERY \o <<"AS is_event_property">>
    THEN Some(SubqueryValue(row, params, eventProperties))
    ELSE None

\* The WHERE condition of the composed text on one row.
Where(text, params, row, eventProperties) ==
    /\ row.team_id = params.team_id
    /\ row.name \notin params.excluded_properties
    /\ (text[5] = NAME_FILTER => row.name \in Range(params.names))
    /\ (text[6] = NUMERICAL_FILTER =>
            row.is_numerical /\ row.name \notin {"distinct_id", "timestamp"})
    /\ (text[7] = SEARCH_QUERY => TermMatches(params.search[1], row.name))
    /\ (text[8] = <<"AND">> \o EVENT_PROPERTY_SUBQUERY \o <<"= true">> =>
            SubqueryValue(row, params, eventProperties))
    /\ (text[8] = <<"AND">> \o EVENT_PROPERTY_SUBQUERY \o <<"= false">> =>
            ~SubqueryValue(row, params, eventProperties))

\* A result row: the table's columns and the derived column.
Project(text, params, row, eventProperties) ==
    [id |-> row.id, team_id |-> row.team_id, name |-> row.name,
     is_numerical |-> row.is_numerical, query_usage_30_day |-> row.query_usage_30_day,
     is_event_property |-> SelectIsEventProperty(text, params, row, eventProperties)]

\* Text order of the names (byte order).
NAME_ORDER == <<"$group_4", "$set", "a", "b", "distinct_id", "timestamp">>

NameRank(name) == CHOOSE i \in 1 .. Len(NAME_ORDER) : NAME_ORDER[i] = name

\* DESC without NULLS LAST puts NULL first, then true, then false.
EventPropertyRank(v) == IF v = None THEN 2 ELSE IF v[1] THEN 1 ELSE 0

\* Variant: query_usage_30_day DESC without NULLS LAST (NULL sorts first).
OrderBeforeNullsFirst(r1, r2) ==
    LET e1 == EventPropertyRank(r1.is_event_property)
        e2 == EventPropertyRank(r2.is_event_property)
        u1 == r1.query_usage_30_day
        u2 == r2.query_usage_30_day
    IN IF e1 # e2 THEN e1 > e2
       ELSE IF u1 # u2
       THEN (IF u1 = None THEN TRUE ELSE IF u2 = None THEN FALSE ELSE u1[1] > u2[1])
       ELSE NameRank(r1.name) < NameRank(r2.name)

\* ORDER BY is_event_property DESC, query_usage_30_day DESC NULLS LAST,
\* name ASC: r1 is placed before r2.
OrderBefore(r1, r2) ==
    LET e1 == EventPropertyRank(r1.is_event_property)
        e2 == EventPropertyRank(r2.is_event_property)
        u1 == r1.query_usage_30_day
        u2 == r2.query_usage_30_day
    IN IF e1 # e2 THEN e1 > e2
       ELSE IF u1 # u2
       THEN (IF u1 = None THEN FALSE ELSE IF u2 = None THEN TRUE ELSE u1[1] > u2[1])
       ELSE NameRank(r1.name) < NameRank(r2.name)

\* The sorted sequence with one more row put in its place.
RECURSIVE Insert(_, _)
Insert(row, sorted) ==
    IF sorted = <<>> THEN <<row>>
    ELSE IF OrderBefore(row, Head(sorted)) THEN <<row>> \o sorted
    ELSE <<Head(sorted)>> \o Insert(row, Tail(sorted))

RECURSIVE SortRows(_)
SortRows(rows) ==
    IF rows = {} THEN <<>>
    ELSE LET row == CHOOSE r \in rows : TRUE
         IN Insert(row, SortRows(rows \ {row}))

\* The rows the database returns for the composed query.
Execute(query, table, eventProperties) ==
    SortRows({ Project(query.text, query.params, row, eventProperties) :
                 row \in { r \in table :
                             Where(query.text, query.params, r, eventProperties) } })

\* ------------------------------------------------------------ the handlers

NoRows == <<>>

Response(outcome, rows, query) ==
    [outcome |-> outcome, rows |-> rows, text |-> query.text, params |-> query.params]

NoResponse == Response("none", NoRows, Raised("none"))

\* ListModelMixin.list over get_queryset.
ListResponse(req, table, eventProperties) ==
    LET query == get_queryset(req)
    IN IF query.raised # "" THEN Response(query.raised, NoRows, query)
       ELSE Response("ok", Execute(query, table, eventProperties), query)

\* PropertyDefinition.objects.get(id=id): the row with that id, of any team.
get_object(req, table) ==
    LET found == { r \in table : r.id = req.id }
    IN IF found = {} THEN [raised |-> "DoesNotExist", rows |-> NoRows]
       ELSE [raised |-> "", rows |-> <<CHOOSE r \in found : TRUE>>]

RetrieveRow(row) ==
    [id |-> row.id, team_id |-> row.team_id, name |-> row.name,
     is_numerical |-> row.is_numerical, query_usage_30_day |-> row.query_usage_30_day,
     is_event_property |-> None]

\* RetrieveModelMixin.retrieve over get_object.
RetrieveResponse(req, table) ==
    LET obj == get_object(req, table)
    IN IF obj.raised # "" THEN Response(obj.raised, NoRows, Raised(""))
       ELSE Response("ok", <<RetrieveRow(obj.rows[1])>>, Raised(""))

\* The serializer's validation of an update body: `name` is required
\* unless the update is partial, and may not be blank.
IsValid(body, partial) ==
    /\ (body.name = None => partial)
    /\ body.name # Some("")

\* Variant: the serializer saves the validated name and returns.
SerializerUpdateSaves(table, row, body) ==
    [raised |-> "",
     table |-> IF body.name = None THEN table
               ELSE (table \ {row}) \cup {[row EXCEPT !.name = body.name[1]]}]

\* PropertyDefinitionSerializer.update: raises, and writes nothing.
SerializerUpdate(table, row, body) ==
    [raised |-> "EnterpriseFeatureException", table |-> table]

\* UpdateModelMixin.update: get_object, validation, then serializer.update.
UpdateResult(req, table) ==
    LET obj == get_object(req, table)
    IN IF obj.raised # "" THEN [raised |-> obj.raised, table |-> table]
       ELSE IF ~IsValid(req.body, req.partial)
       THEN [raised |-> "ValidationError", table |-> table]
       ELSE SerializerUpdate(table, obj.rows[1], req.body)

\* ------------------------------------------------------------ state machine

VARIABLES
    store,            \* posthog_propertydefinition
    eventProperties,  \* posthog_eventproperty
    pc,               \* "idle", or "done" once a handler has answered
    request,          \* the request being answered
    response,         \* its answer
    peer              \* the text composed for an earlier list request

vars == <<store, eventProperties, pc, request, response, peer>>

NoPeer == [set |-> FALSE, facts |-> [properties |-> FALSE, is_numerical |-> FALSE, event_names |-> FALSE, is_event_property |-> <<>>], text |-> <<>>, names |-> <<>>]

Init ==
    /\ store \in Stores
    /\ eventProperties \in EventPropertyTables
    /\ pc = "idle"
    /\ request = NoRequest
    /\ response = NoResponse
    /\ peer = NoPeer

List(req) ==
    /\ pc = "idle"
    /\ pc' = "done"
    /\ request' = req
    /\ response' = ListResponse(req, store, eventProperties)
    /\ UNCHANGED <<store, eventProperties, peer>>

Retrieve(req) ==
    /\ pc = "idle"
    /\ pc' = "done"
    /\ request' = req
    /\ response' = RetrieveResponse(req, store)
    /\ UNCHANGED <<store, eventProperties, peer>>

Update(req) ==
    /\ pc = "idle"
    /\ pc' = "done"
    /\ request' = req
    /\ LET result == UpdateResult(req, store)
       IN /\ response' = Response(IF result.raised = "" THEN "ok" ELSE result.raised,
                                  NoRows, Raised(""))
          /\ store' = result.table
    /\ UNCHANGED <<eventProperties, peer>>

\* The answer has been sent; the view instance is gone.
Return ==
    /\ pc = "done"
    /\ pc' = "idle"
    /\ request' = NoRequest
    /\ response' = NoResponse
    /\ UNCHANGED <<store, eventProperties, peer>>

\* A request arrives only when the previous one has been answered.
Next ==
    \/ /\ pc = "idle"
       /\ \E req \in ListRequests : List(req)
    \/ /\ pc = "idle"
       /\ \E team \in Teams, id \in RowIds \cup {MissingId} :
              Retrieve(ItemRequest("retrieve", team, id, NoBody, FALSE))
    \/ /\ pc = "idle"
       /\ \E team \in Teams, id \in RowIds \cup {MissingId},
             body \in BodyInputs, partial \in BOOLEAN :
              Update(ItemRequest("update", team, id, body, partial))
    \/ Return

Spec == Init /\ [][Next]_vars

\* ------------------------------------------------ two requests, one text

\* Which optional filters a request activates.
Facts(req) ==
    [properties |-> Truthy(req.properties),
     is_numerical |-> (req.is_numerical = Some("true")),
     event_names |-> (Truthy(req.event_names) /\ JsonLoads(req.event_names[1]).value # <<>>),
     is_event_property |-> IF req.is_event_property \in {Some("true"), Some("false")}
                           THEN req.is_event_property ELSE None]

\* The text without the delegated search fragment.
TextSansSearch(text) == [text EXCEPT ![7] = <<>>]

PairStore ==
    CHOOSE s \in Stores :
        PropertyDefinition(1, TRUE, Some(0)) \in s /\ PropertyDefinition(2, FALSE, None) \in s

InitPair ==
    /\ store = PairStore
    /\ eventProperties = CHOOSE t \in EventPropertyTables :
                             EventProperty("team_1", "login", "a") \in t
    /\ pc = "idle"
    /\ request = NoRequest
    /\ response = NoResponse
    /\ peer = NoPeer

\* As Return, keeping what was composed for the request just answered.
ReturnKeep ==
    /\ pc = "done"
    /\ pc' = "idle"
    /\ request' = NoRequest
    /\ response' = NoResponse
    /\ peer' = IF response.outcome = "ok"
               THEN [set |-> TRUE, facts |-> Facts(request), text |-> TextSansSearch(response.text),
                     names |-> response.params.names]
               ELSE peer
    /\ UNCHANGED <<store, eventProperties>>

NextPair ==
    \/ /\ pc = "idle"
       /\ \E req \in ListRequests : List(req)
    \/ ReturnKeep

SpecPair == InitPair /\ [][NextPair]_vars

\* ================================================================= claims

IsAnswer(op) == pc = "done" /\ request.op = op

ListOk == IsAnswer("list") /\ response.outcome = "ok"

Returned == Range(response.rows)

ReturnedNames == { r.name : r \in Returned }

\* The names a request asks for through `properties`.
RequestedNames(req) ==
    IF Truthy(req.properties) THEN Range(Split(req.properties[1])) ELSE {}

\* The events of a request whose event_names is a well-formed list.
RequestedEvents(req) ==
    IF Truthy(req.event_names) /\ JsonLoads(req.event_names[1]).ok
    THEN Range(JsonLoads(req.event_names[1]).value) ELSE {}

\* The names of a request whose excluded_properties is a well-formed list.
RequestedExclusions(req) ==
    IF Truthy(req.excluded_properties) /\ JsonLoads(req.excluded_properties[1]).ok
    THEN Range(JsonLoads(req.excluded_properties[1]).value) ELSE {}

\* A parameter that is a non-empty string and not valid JSON.
Malformed(v) == Truthy(v) /\ ~JsonLoads(v[1]).ok

\* An EventProperty record ties the row, in its team, to one of the events.
Associated(row, events) ==
    \E e \in eventProperties :
        e.team_id = row.team_id /\ e.event \in events /\ e.property = row.name

HiddenNames ==
    {"distinct_id", "$set", "$set_once", "$groups", "$group_type", "$group_key",
     "$group_set", "$group_0", "$group_1", "$group_2", "$group_3", "$group_4"}

\* C1: no returned row of a list request has a hidden name or a name of the
\* caller's excluded_properties, whatever else is requested.
C1_HiddenAndExcludedNeverReturned ==
    ListOk => ReturnedNames \cap (HiddenNames \cup RequestedExclusions(request)) = {}

\* C1 witness: "a", "timestamp" and the hidden "$group_4" are requested by
\* name, "a" is excluded by the caller, and only "timestamp" comes back.
C1_Witness ==
    /\ ListOk
    /\ request.properties = Some(<<"a", ",", "timestamp", ",", "$group_4">>)
    /\ request.excluded_properties = Some(<<"[", "a", "]">>)
    /\ request.team_id = "team_1"
    /\ ReturnedNames = {"timestamp"}

\* C2: with is_numerical = "true" every returned row is numerical and none
\* is named distinct_id or timestamp; with any other value the answer is
\* that of the same request without is_numerical.
C2_NumericalFilter ==
    ListOk =>
        IF request.is_numerical = Some("true")
        THEN \A r \in Returned : r.is_numerical /\ r.name \notin {"distinct_id", "timestamp"}
        ELSE response.rows =
                 ListResponse([request EXCEPT !.is_numerical = None],
                              store, eventProperties).rows

\* C2 witness: numerical "timestamp" is requested by name with
\* is_numerical = "true" and is not excluded by the caller; only "a" returns.
C2_Witness ==
    /\ ListOk
    /\ request.is_numerical = Some("true")
    /\ request.properties = Some(<<"a", ",", "timestamp", ",", "$group_4">>)
    /\ request.excluded_properties = None
    /\ ReturnedNames = {"a"}

\* C3: with a non-empty event_names list each row's is_event_property is
\* the boolean "some EventProperty of the row's team ties its name to one of
\* the events"; otherwise it is null for every row.
C3_DerivedIsEventProperty ==
    ListOk =>
        \A r \in Returned :
            r.is_event_property =
                IF RequestedEvents(request) # {}
                THEN Some(Associated(r, RequestedEvents(request)))
                ELSE None

\* C3 witness: event_names = ["login"]; "timestamp" is true, and "b", tied
\* to login only in team_2 and only to other events in team_1, is false.
C3_Witness ==
    /\ ListOk
    /\ request.event_names = Some(<<"[", "login", "]">>)
    /\ request.team_id = "team_1"
    /\ \E r \in Returned : r.name = "timestamp" /\ r.is_event_property = Some(TRUE)
    /\ \E r \in Returned : r.name = "b" /\ r.is_event_property = Some(FALSE)

\* C4: with a non-empty event_names list, is_event_property = "true"
\* returns only associated rows and "false" only unassociated rows, and
\* every row's derived value is the requested boolean.
C4_EventPropertyFilter ==
    (ListOk /\ RequestedEvents(request) # {}) =>
        /\ request.is_event_property = Some("true") =>
               \A r \in Returned :
                   Associated(r, RequestedEvents(request)) /\ r.is_event_property = Some(TRUE)
        /\ request.is_event_property = Some("false") =>
               \A r \in Returned :
                   ~Associated(r, RequestedEvents(request)) /\ r.is_event_property = Some(FALSE)

\* C4 witness: is_event_property = "false" with two events returns a row
\* tied to none of them while a tied row of the team is left out.
C4_Witness ==
    /\ ListOk
    /\ request.event_names = Some(<<"[", "login", ",", "signup", "]">>)
    /\ request.is_event_property = Some("false")
    /\ request.team_id = "team_1"
    /\ "a" \in ReturnedNames
    /\ "timestamp" \notin ReturnedNames
    /\ request.properties = None /\ request.is_numerical = None /\ request.search = None

\* C5: the returned rows are in order: is_event_property = true first; with
\* equal is_event_property the higher query_usage_30_day first and null
\* usage last; with equal usage ascending name; no name occurs twice.
C5_Ordering ==
    ListOk =>
        \A i, j \in 1 .. Len(response.rows) :
            i < j =>
                LET r1 == response.rows[i]
                    r2 == response.rows[j]
                IN /\ r1.name # r2.name
                   /\ (r2.is_event_property = Some(TRUE) => r1.is_event_property = Some(TRUE))
                   /\ r1.is_event_property = r2.is_event_property =>
                          /\ r2.query_usage_30_day # None => r1.query_usage_30_day # None
                          /\ (r1.query_usage_30_day # None /\ r2.query_usage_30_day # None) =>
                                 r1.query_usage_30_day[1] >= r2.query_usage_30_day[1]
                          /\ r1.query_usage_30_day = r2.query_usage_30_day =>
                                 NameRank(r1.name) < NameRank(r2.name)

\* C5 witness: three rows; the associated one first although its usage is
\* lowest, then of the two others the one with a usage before the null one.
C5_Witness ==
    /\ ListOk
    /\ Len(response.rows) = 3
    /\ response.rows[1].is_event_property = Some(TRUE)
    /\ response.rows[2].is_event_property = Some(FALSE)
    /\ response.rows[3].is_event_property = Some(FALSE)
    /\ response.rows[1].query_usage_30_day = Some(0)
    /\ response.rows[2].query_usage_30_day = Some(MaxUsage)
    /\ response.rows[3].query_usage_30_day = None

ClientErrors == {"ParseError", "ValidationError"}

\* C6: a list request whose event_names or excluded_properties is a
\* non-empty string that is not valid JSON ends in a ParseError / validation
\* error (a client error), never in a result and never in a server fault.
C6_MalformedJsonIsClientError ==
    (IsAnswer("list") /\
        (Malformed(request.event_names) \/ Malformed(request.excluded_properties))) =>
        response.outcome \in ClientErrors

IdExists == \E r \in store : r.id = request.id

BodyPasses(req) ==
    /\ (req.op = "update" /\ ~req.partial) => req.body.name # None
    /\ req.body.name # Some("")

C8_RetrieveScopedToTeam ==
    IsAnswer("retrieve") =>
        /\ response.outcome = "ok" <=>
               \E r \in store : r.id = request.id /\ r.team_id = request.team_id
        /\ \A r \in Returned : r.team_id = request.team_id

\* The values a caller supplies that must stay out of the text.
CallerValues(req) ==
    RequestedNames(req) \cup RequestedEvents(req) \cup RequestedExclusions(req)
        \cup {req.team_id}

\* C9: two list requests that activate the same optional filters get the
\* same text (the search fragment apart), and no token of the text is a
\* value the caller supplied.
C9_TextIndependentOfValues ==
    (pc = "done" /\ response.outcome = "ok") =>
        /\ (peer.set /\ peer.facts = Facts(request)) =>
               TextSansSearch(response.text) = peer.text
        /\ \A i \in 1 .. Len(response.text) :
               Range(response.text[i]) \cap CallerValues(request) = {}

\* C9 witness: two requests with the name filter active and different
\* names were composed, one after the other.
C9_Witness ==
    /\ pc = "done" /\ response.outcome = "ok"
    /\ peer.set /\ peer.facts = Facts(request)
    /\ request.properties # None /\ request.properties # Some(<<>>)
    /\ request.event_names = Some(<<"[", "login", "]">>)
    /\ request.excluded_properties = Some(<<"[", "a", "]">>)
    /\ peer.names # response.params.names

\* The rows of the caller's team that pass every active filter.
Expected(req) ==
    { r \in store :
        /\ r.team_id = req.team_id
        /\ r.name \notin HiddenNames \cup RequestedExclusions(req)
        /\ Truthy(req.properties) => r.name \in RequestedNames(req)
        /\ req.is_numerical = Some("true") =>
               r.is_numerical /\ r.name \notin {"distinct_id", "timestamp"}
        /\ Truthy(req.search) => TermMatches(req.search[1], r.name)
        /\ (RequestedEvents(req) # {} /\ req.is_event_property = Some("true")) =>
               Associated(r, RequestedEvents(req))
        /\ (RequestedEvents(req) # {} /\ req.is_event_property = Some("false")) =>
               ~Associated(r, RequestedEvents(req)) }

====
